---- MODULE Spec2Model ----
(***************************************************************************)
(* Model of the video dubbing pipeline's synthesis and assembly engine:    *)
(* render job construction, the semaphore-bounded gather of the TTS jobs,  *)
(* the per-job synthesize coroutine with its duration fitting, the audio   *)
(* bed mixdown of the video editor, assemble_video with its temporary      *)
(* files, the narration instruction of the render tasks, and the retry     *)
(* loop of the transcription call.                                         *)
(*                                                                         *)
(* Times are Python floats (seconds) in the source.  They are modelled as  *)
(* integer ticks, TicksPerMs ticks to the millisecond, so that the         *)
(* truncations, roundings and ceilings of the source are real operations.  *)
(* Binary floating point rounding error is not modelled.                   *)
(* Strings are sequences of character codes.                               *)
(***************************************************************************)
EXTENDS Integers, Sequences, FiniteSets, TLC

VARIABLES
    \* ---- pipeline run (pipeline.py, concurrency.py, tts.py) ----
    segments,      \* the translated transcript handed to render_audio_segments
    limit,         \* settings.max_concurrency
    render_tasks,  \* list of AudioRenderTask built by create_render_tasks
    jobSt,         \* position of each _run(synthesize(task)) task
    semValue,      \* asyncio.Semaphore._value
    results,       \* bounded_gather's results list (completion order)
    files,         \* disk: output path -> file content
    ttsCalls,      \* provider calls made per job in the current run
    fitLog,        \* what the duration fitting of each job did in this run
    gatherSt,      \* "idle" | "running" | "returned" | "raised"
    plan,          \* the VideoAssemblyPlan built by run, or NoPlan
    runNo,         \* number of pipeline runs started
    filesAtStart,  \* disk as it was when the current run started
    \* ---- duration fitting of one clip (tts.py) ----
    fitIn,         \* measured duration, target, and the outcomes of the tools
    fitOut,        \* the file after the fitting block and how the block ended
    \* ---- file names of two render jobs of one list (tts.py) ----
    nameIn,        \* two list positions i < j and the starts of their segments
    nameOut,       \* the file names create_render_tasks gives them
    \* ---- audio bed of the video editor (video.py) ----
    mixIn,         \* probed video duration and the (path, start, end) tuples
    mixOut,        \* total_duration_ms and the samples of the mixdown
    \* ---- assemble_video (pipeline.py, video.py) ----
    asmIn,         \* plan.source_video and plan.output_video
    asmPc,         \* position of assemble_video
    asmErr,        \* the step whose exception assemble_video ended with
    disk,          \* path -> content of the files around the video
    \* ---- narration instruction of the render tasks (tts.py) ----
    instrIn,       \* constructor argument and instruction_override
    instrOut,      \* self._instruction, the applied instruction, the request
    \* ---- provider call of transcribe (transcription.py) ----
    retryPc,       \* "calling" | "returned" | "raised"
    attempt,       \* loop variable of the retry loop
    calls,         \* provider calls made by this invocation
    retried,       \* the errors after which the call was repeated
    raisedError    \* the error transcribe raised

runVars == <<segments, limit, render_tasks, jobSt, semValue, results, files,
             ttsCalls, fitLog, gatherSt, plan, runNo, filesAtStart>>

fitVars == <<fitIn, fitOut>>

nameVars == <<nameIn, nameOut>>

mixVars == <<mixIn, mixOut>>

asmVars == <<asmIn, asmPc, asmErr, disk>>

instrVars == <<instrIn, instrOut>>

retryVars == <<retryPc, attempt, calls, retried, raisedError>>

vars == <<runVars, fitVars, nameVars, mixVars, asmVars, instrVars, retryVars>>

----------------------------------------------------------------------------
\* Bounds of the model

MaxJobs == 2
MaxLimit == 2
MaxRuns == 2
TicksPerMs == 3

----------------------------------------------------------------------------
\* Generic helpers

Max(a, b) == IF a >= b THEN a ELSE b
Min(a, b) == IF a <= b THEN a ELSE b

\* Python int(): truncation toward zero of num/den, den > 0
TruncDiv(num, den) == IF num >= 0 THEN num \div den ELSE -((-num) \div den)

\* math.ceil of num/den, den > 0
CeilDiv(num, den) == -((-num) \div den)

SPACE == 32

RECURSIVE LStrip(_)
LStrip(s) == IF s # <<>> /\ Head(s) = SPACE THEN LStrip(Tail(s)) ELSE s

RECURSIVE RStrip(_)
RStrip(s) ==
    IF s # <<>> /\ s[Len(s)] = SPACE THEN RStrip(SubSeq(s, 1, Len(s) - 1)) ELSE s

\* str.strip()
Strip(s) == RStrip(LStrip(s))

----------------------------------------------------------------------------
\* Render job builder: TextToSpeechService.create_render_tasks

IndexWidth == 4
StartWidth == 8
MsPerSecond == 1000

RECURSIVE Digits(_)
Digits(n) == IF n < 10 THEN <<48 + n>> ELSE Digits(n \div 10) \o <<48 + (n % 10)>>

\* the "0" fill of a format spec: a minimum width, never a truncation
RECURSIVE ZeroPad(_, _)
ZeroPad(s, width) == IF Len(s) >= width THEN s ELSE ZeroPad(<<48>> \o s, width)

\* rounding of a non-negative time to whole milliseconds (the ".3f" of seconds)
RoundMs(t) == (2 * t + TicksPerMs) \div (2 * TicksPerMs)

\* f"{index:04d}"
IndexField(index) == ZeroPad(Digits(index), IndexWidth)

\* f"{segment.start:08.3f}", start >= 0
StartField(start) ==
    LET ms == RoundMs(start)
    IN  ZeroPad(Digits(ms \div MsPerSecond) \o <<46>>
                    \o ZeroPad(Digits(ms % MsPerSecond), 3), StartWidth)

\* f"{index:04d}_{segment.start:08.3f}.wav"
Filename(index, start) ==
    IndexField(index) \o <<95>> \o StartField(start) \o <<46, 119, 97, 118>>

\* the list of AudioRenderTask, one per enumerate(segments) step
CreateRenderTasks(segs) ==
    [i \in 1..Len(segs) |->
        [segment |-> segs[i], output_path |-> Filename(i - 1, segs[i].start)]]

----------------------------------------------------------------------------
\* Disk

File(kind, dur, num, den) == [kind |-> kind, dur |-> dur, num |-> num, den |-> den]

Absent == File("absent", 0, 1, 1)
\* opened for writing, nothing written yet (size 0)
EmptyFile == File("empty", 0, 1, 1)
\* some but not all bytes of a streamed response
PartialFile == File("partial", 0, 1, 1)
\* AudioSegment.silent(duration=ms) exported as wav
SilentFile(ms) == File("silent", ms, 1, 1)
\* the complete provider audio, of duration d ticks
RawFile(d) == File("raw", d, 1, 1)
\* the provider audio of duration d after atempo=num/den
FittedFile(d, num, den) == File("fitted", d, num, den)

FileAt(fs, p) == IF p \in DOMAIN fs THEN fs[p] ELSE Absent

WriteFile(fs, p, c) == [q \in (DOMAIN fs) \cup {p} |-> IF q = p THEN c ELSE fs[q]]

----------------------------------------------------------------------------
\* TextToSpeechService.synthesize, the parts without an await

MaxSpeedupNum == 13
MaxSpeedupDen == 10
ThresholdNum == 101
ThresholdDen == 100

\* a synthesize that never takes the skip-if-exists return
SkipNever(f) == FALSE

\* task.output_path.exists() and task.output_path.stat().st_size > 0
SkipExisting(f) == f.kind # "absent" /\ f.kind # "empty"

\* a blank test that forgets the strip
IsBlankUnstripped(text) == text = <<>>

\* not text, for text = task.segment.text.strip()
IsBlank(text) == Strip(text) = <<>>

\* max(1, int((end - start) * 1000))
SilentDurationMs(seg) == Max(1, TruncDiv(seg.end - seg.start, TicksPerMs))

\* a speed-up that forgets the ceiling
UnclampedSpeedup(current, target) == [num |-> current, den |-> target]

\* min(current_duration / target_duration, max_speedup_factor) as a fraction,
\* target > 0
EffectiveSpeedup(current, target) ==
    IF current * MaxSpeedupDen <= MaxSpeedupNum * target
    THEN [num |-> current, den |-> target]
    ELSE [num |-> MaxSpeedupNum, den |-> MaxSpeedupDen]

\* effective_speedup > 1.01
Significant(eff) == eff.num * ThresholdDen > ThresholdNum * eff.den

\* The body of the try block after the stream: probe, decide, run ffmpeg,
\* replace.  probeOk: ffmpeg.probe succeeded and reported the duration;
\* runOk: ffmpeg.run and temp_path.replace succeeded.  The result is the file
\* at output_path afterwards and the exception the block ended with.
TryAdjust(current, target, probeOk, runOk) ==
    IF ~probeOk
    THEN [file |-> RawFile(current), error |-> "probe"]
    ELSE IF current > target
    THEN IF target = 0
         THEN [file |-> RawFile(current), error |-> "zero_division"]
         ELSE LET eff == EffectiveSpeedup(current, target)
              IN  IF Significant(eff)
                  THEN IF runOk
                       THEN [file |-> FittedFile(current, eff.num, eff.den),
                             error |-> "none"]
                       ELSE [file |-> RawFile(current), error |-> "compress"]
                  ELSE [file |-> RawFile(current), error |-> "none"]
    ELSE [file |-> RawFile(current), error |-> "none"]

\* an except clause that names ffmpeg.Error only
HandledFfmpegOnly(error) == error \in {"probe", "compress"}

\* except Exception as e: print a warning and go on
Handled(error) == error \in {"probe", "zero_division", "compress"}

----------------------------------------------------------------------------
\* Inputs of a pipeline run

TextHi == <<104, 105>>
TextPadded == <<SPACE, 104, 105, SPACE>>
TextSpaces == <<SPACE, SPACE>>
TextEmpty == <<>>

\* Segments as the transcript and translation collaborators may deliver them:
\* 0 <= start <= end, any text.
SegmentPool ==
    { [start |-> 0, end |-> 300, text |-> TextHi],
      [start |-> 301, end |-> 308, text |-> TextSpaces],
      [start |-> 308, end |-> 308, text |-> TextPadded],
      [start |-> 310, end |-> 310, text |-> TextEmpty] }

RECURSIVE SeqsUpTo(_, _)
SeqsUpTo(S, n) ==
    IF n = 0 THEN {<<>>}
    ELSE LET shorter == SeqsUpTo(S, n - 1)
         IN  shorter \cup {Append(q, x) : q \in shorter, x \in S}

\* measured durations of a provider clip, in ticks
DurSamples == {300, 450}

\* run has not built a VideoAssemblyPlan (yet)
NoPlan == [built |-> FALSE, rendered_segments |-> <<>>]

Jobs == 1..Len(render_tasks)

\* positions of synthesize at which _run holds a permit
InFlightStates == {"requesting", "streaming", "fitting"}

InFlight == {i \in Jobs : jobSt[i] \in InFlightStates}

\* positions at which synthesize is suspended in an await of the provider
AwaitingStates == {"requesting", "streaming"}

\* The thread of the event loop is inside the duration fitting block of a job
\* (ffmpeg.probe, ffmpeg.run): the calls are made in the coroutine itself, so
\* until they return the loop runs no other callback.
LoopBlocked == \E i \in Jobs : jobSt[i] = "fitting"

PathOf(i) == render_tasks[i].output_path

TargetOf(i) == render_tasks[i].segment.end - render_tasks[i].segment.start

----------------------------------------------------------------------------
\* asyncio.Semaphore as used by bounded_gather

\* a gate that never closes
SemNeverLocked(value) == FALSE

\* Semaphore.locked(): no permit left
SemLocked(value) == value = 0

\* an exit of the async with block that keeps the permit
SemLeak(value) == value

\* Semaphore.release() at the exit of the async with block, normal or not
SemRelease(value) == value + 1

----------------------------------------------------------------------------
\* VideoDubbingPipeline.run / render_audio_segments and bounded_gather

\* the tasks in the order in which their synthesize calls completed
TasksByCompletion(tasks, completed) ==
    [k \in 1..Len(completed) |->
        tasks[CHOOSE i \in 1..Len(tasks) : tasks[i].output_path = completed[k]]]

\* what render_audio_segments returns: the task list it built, in task order
RenderedTasks(tasks, completed) == tasks

\* a gather that collects exceptions as results (return_exceptions=True)
AllSettled(st) == \A i \in DOMAIN st : st[i] \in {"done", "failed"}

\* asyncio.gather resolves with the results once every child has returned
AllDone(st) == \A i \in DOMAIN st : st[i] = "done"

\* rendered_segments of the plan built by run
BuildPlan(tasks) ==
    [built |-> TRUE,
     rendered_segments |->
        [i \in 1..Len(tasks) |->
            [audio_path |-> tasks[i].output_path,
             start |-> tasks[i].segment.start,
             end |-> tasks[i].segment.end]]]

\* values of the variable groups a specification does not use
NoFit == [done |-> FALSE, file |-> Absent, error |-> "none"]

FitIdle ==
    /\ fitIn = [current |-> 0, target |-> 0, probeOk |-> TRUE, runOk |-> TRUE]
    /\ fitOut = NoFit

NoNames == [done |-> FALSE, first |-> <<>>, second |-> <<>>]

NamesIdle ==
    /\ nameIn = [i |-> 0, j |-> 1, start_i |-> 0, start_j |-> 0]
    /\ nameOut = NoNames

NoMix == [done |-> FALSE, total_duration_ms |-> 0, mixdown |-> <<>>]

MixIdle ==
    /\ mixIn = [probe |-> [ok |-> FALSE, duration |-> 0], audio_segments |-> <<>>]
    /\ mixOut = NoMix

\* Python's None and a str value
None == [isNone |-> TRUE, text |-> <<>>]

Str(text) == [isNone |-> FALSE, text |-> text]

\* no exception (status_code -1 is the status of no exception of ErrorPool)
NoError == [has_status_code |-> FALSE, status_code |-> -1, text_has_500 |-> FALSE]

NoDisk == [p \in {} |-> "absent"]

AsmIdle ==
    /\ asmIn = [source_video |-> <<"v", "mp4">>, output_video |-> <<"out">>]
    /\ asmPc = "idle"
    /\ asmErr = "none"
    /\ disk = NoDisk

NoInstr == [pc |-> "new", instruction |-> None, applied |-> None,
            request_instructions |-> None]

InstrIdle ==
    /\ instrIn = [instruction |-> None, instruction_override |-> None]
    /\ instrOut = NoInstr

RetryIdle ==
    /\ retryPc = "idle"
    /\ attempt = 0
    /\ calls = 0
    /\ retried = <<>>
    /\ raisedError = NoError

OthersIdle == AsmIdle /\ InstrIdle /\ RetryIdle

RunInputs(segs, lim) ==
    /\ segments = segs
    /\ limit = lim
    /\ render_tasks = <<>>
    /\ jobSt = <<>>
    /\ semValue = 0
    /\ results = <<>>
    /\ files = [p \in {} |-> Absent]
    /\ ttsCalls = <<>>
    /\ fitLog = <<>>
    /\ gatherSt = "idle"
    /\ plan = NoPlan
    /\ runNo = 0
    /\ filesAtStart = [p \in {} |-> Absent]

RunIdle == RunInputs(<<>>, 1)

\* the pipeline after construction, for every transcript and limit
InitRun ==
    \E segs \in SeqsUpTo(SegmentPool, MaxJobs), lim \in 1..MaxLimit :
        RunInputs(segs, lim)

\* run up to the await of asyncio.gather in bounded_gather.  A run after the
\* first one is a new process: tasks of the previous one are gone.
StartRun ==
    /\ gatherSt \in {"idle", "returned", "raised"}
    /\ runNo < MaxRuns
    /\ runNo' = runNo + 1
    /\ filesAtStart' = files
    /\ render_tasks' = CreateRenderTasks(segments)
    /\ jobSt' = [i \in 1..Len(segments) |-> "pending"]
    /\ ttsCalls' = [i \in 1..Len(segments) |-> 0]
    /\ fitLog' = [i \in 1..Len(segments) |-> "none"]
    /\ results' = <<>>
    /\ semValue' = limit
    /\ IF segments = <<>>
       THEN /\ gatherSt' = "returned"
            /\ plan' = BuildPlan(<<>>)
       ELSE /\ gatherSt' = "running"
            /\ plan' = NoPlan
    /\ UNCHANGED <<segments, limit, files>>
    /\ UNCHANGED <<fitVars, nameVars, mixVars, asmVars, instrVars, retryVars>>

\* asyncio.gather starts the tasks of _run in the order of its arguments and
\* the semaphore wakes its waiters first-in first-out: job i gets its permit
\* after every job before it in the list
AdmittedInOrder(i) == \A j \in 1..(i - 1) : jobSt[j] # "pending"

\* _run(coro) of job i gets a permit and synthesize runs to its first await
\* or to its return
Admit(i) ==
    /\ gatherSt \in {"running", "raised"}
    /\ ~LoopBlocked
    /\ jobSt[i] = "pending"
    /\ ~SemLocked(semValue)
    /\ AdmittedInOrder(i)
    /\ LET task == render_tasks[i]
           existing == FileAt(files, task.output_path)
       IN  IF SkipExisting(existing)
           THEN /\ jobSt' = [jobSt EXCEPT ![i] = "done"]
                /\ results' = Append(results, task.output_path)
                /\ UNCHANGED <<files, ttsCalls, semValue>>
           ELSE IF IsBlank(task.segment.text)
           THEN /\ files' = WriteFile(files, task.output_path,
                                      SilentFile(SilentDurationMs(task.segment)))
                /\ jobSt' = [jobSt EXCEPT ![i] = "done"]
                /\ results' = Append(results, task.output_path)
                /\ UNCHANGED <<ttsCalls, semValue>>
           ELSE /\ ttsCalls' = [ttsCalls EXCEPT ![i] = @ + 1]
                /\ jobSt' = [jobSt EXCEPT ![i] = "requesting"]
                /\ semValue' = semValue - 1
                /\ UNCHANGED <<files, results>>
    /\ UNCHANGED <<segments, limit, render_tasks, fitLog, gatherSt, plan, runNo,
                   filesAtStart>>
    /\ UNCHANGED <<fitVars, nameVars, mixVars, asmVars, instrVars, retryVars>>

\* the response arrives and stream_to_file opens the output file
StreamOpen(i) ==
    /\ ~LoopBlocked
    /\ jobSt[i] = "requesting"
    /\ jobSt' = [jobSt EXCEPT ![i] = "streaming"]
    /\ files' = WriteFile(files, PathOf(i), EmptyFile)
    /\ UNCHANGED <<segments, limit, render_tasks, semValue, results, ttsCalls,
                   fitLog, gatherSt, plan, runNo, filesAtStart>>
    /\ UNCHANGED <<fitVars, nameVars, mixVars, asmVars, instrVars, retryVars>>

\* stream_to_file writes a chunk that is not the last
StreamChunk(i) ==
    /\ ~LoopBlocked
    /\ jobSt[i] = "streaming"
    /\ FileAt(files, PathOf(i)) = EmptyFile
    /\ files' = WriteFile(files, PathOf(i), PartialFile)
    /\ UNCHANGED <<segments, limit, render_tasks, jobSt, semValue, results,
                   ttsCalls, fitLog, gatherSt, plan, runNo, filesAtStart>>
    /\ UNCHANGED <<fitVars, nameVars, mixVars, asmVars, instrVars, retryVars>>

\* the last chunk is written and stream_to_file returns; synthesize goes on
\* without an await into ffmpeg.probe
StreamFinish(i) ==
    /\ ~LoopBlocked
    /\ jobSt[i] = "streaming"
    /\ \E current \in DurSamples :
          files' = WriteFile(files, PathOf(i), RawFile(current))
    /\ jobSt' = [jobSt EXCEPT ![i] = "fitting"]
    /\ UNCHANGED <<segments, limit, render_tasks, semValue, results, ttsCalls,
                   fitLog, gatherSt, plan, runNo, filesAtStart>>
    /\ UNCHANGED <<fitVars, nameVars, mixVars, asmVars, instrVars, retryVars>>

\* the duration fitting block ends, synthesize returns or raises, _run
\* appends the result and releases the permit
FitFinish(i) ==
    /\ jobSt[i] = "fitting"
    /\ \E probeOk \in BOOLEAN, runOk \in BOOLEAN :
          LET current == FileAt(files, PathOf(i)).dur
              r == TryAdjust(current, TargetOf(i), probeOk, runOk)
          IN  /\ files' = WriteFile(files, PathOf(i), r.file)
              /\ fitLog' = [fitLog EXCEPT ![i] =
                               IF r.error # "none" THEN r.error
                               ELSE r.file.kind]
              /\ IF r.error = "none" \/ Handled(r.error)
                 THEN /\ jobSt' = [jobSt EXCEPT ![i] = "done"]
                      /\ results' = Append(results, PathOf(i))
                 ELSE /\ jobSt' = [jobSt EXCEPT ![i] = "failed"]
                      /\ UNCHANGED results
    /\ semValue' = SemRelease(semValue)
    /\ UNCHANGED <<segments, limit, render_tasks, ttsCalls, gatherSt, plan,
                   runNo, filesAtStart>>
    /\ UNCHANGED <<fitVars, nameVars, mixVars, asmVars, instrVars, retryVars>>

\* the provider call or the stream fails with a transport error: synthesize
\* raises, the permit is released, the task of _run ends with the exception
StreamFail(i) ==
    /\ ~LoopBlocked
    /\ jobSt[i] \in AwaitingStates
    /\ jobSt' = [jobSt EXCEPT ![i] = "failed"]
    /\ semValue' = SemRelease(semValue)
    /\ UNCHANGED <<segments, limit, render_tasks, results, files, ttsCalls,
                   fitLog, gatherSt, plan, runNo, filesAtStart>>
    /\ UNCHANGED <<fitVars, nameVars, mixVars, asmVars, instrVars, retryVars>>

\* asyncio.gather: every task finished without an exception; bounded_gather
\* returns, render_audio_segments returns and run builds the plan
GatherReturn ==
    /\ ~LoopBlocked
    /\ gatherSt = "running"
    /\ AllDone(jobSt)
    /\ gatherSt' = "returned"
    /\ plan' = BuildPlan(RenderedTasks(render_tasks, results))
    /\ UNCHANGED <<segments, limit, render_tasks, jobSt, semValue, results,
                   files, ttsCalls, fitLog, runNo, filesAtStart>>
    /\ UNCHANGED <<fitVars, nameVars, mixVars, asmVars, instrVars, retryVars>>

\* asyncio.gather (return_exceptions=False): the first exception of a task is
\* raised to the awaiting caller; the other tasks are left as they are
GatherRaise ==
    /\ ~LoopBlocked
    /\ gatherSt = "running"
    /\ \E i \in Jobs : jobSt[i] = "failed"
    /\ gatherSt' = "raised"
    /\ UNCHANGED <<segments, limit, render_tasks, jobSt, semValue, results,
                   files, ttsCalls, fitLog, plan, runNo, filesAtStart>>
    /\ UNCHANGED <<fitVars, nameVars, mixVars, asmVars, instrVars, retryVars>>

Init == InitRun /\ FitIdle /\ NamesIdle /\ MixIdle /\ OthersIdle

Next ==
    \/ StartRun
    \/ \E i \in Jobs : Admit(i)
    \/ \E i \in Jobs : StreamOpen(i)
    \/ \E i \in Jobs : StreamChunk(i)
    \/ \E i \in Jobs : StreamFinish(i)
    \/ \E i \in Jobs : FitFinish(i)
    \/ \E i \in Jobs : StreamFail(i)
    \/ GatherReturn
    \/ GatherRaise

Spec == Init /\ [][Next]_vars

----------------------------------------------------------------------------
\* The duration fitting block of synthesize on one clip, over a range of
\* measured durations and targets

MaxFitTicks == 160

FitTargets == {0, 1, 3, 10, 20, 100}

InitFit ==
    /\ RunIdle /\ NamesIdle /\ MixIdle /\ OthersIdle
    /\ fitIn \in [current : 0..MaxFitTicks, target : FitTargets,
                  probeOk : BOOLEAN, runOk : BOOLEAN]
    /\ fitOut = NoFit

\* lines 111-137 of synthesize on a freshly streamed clip
FitClip ==
    /\ ~fitOut.done
    /\ LET r == TryAdjust(fitIn.current, fitIn.target, fitIn.probeOk, fitIn.runOk)
       IN  fitOut' = [done |-> TRUE, file |-> r.file, error |-> r.error]
    /\ UNCHANGED <<fitIn, runVars, nameVars, mixVars, asmVars, instrVars, retryVars>>

NextFit == FitClip

SpecFit == InitFit /\ [][NextFit]_vars

----------------------------------------------------------------------------
\* The file names create_render_tasks gives two jobs of one segment list

\* list positions (enumerate indices) looked at
IndexSamples == {0, 1, 9, 10, 99, 100, 999, 1000, 9999, 10000}

\* segment starts in ticks
StartSamples == {0, 4, 3 * MsPerSecond, 10000 * MsPerSecond * TicksPerMs}

InitNames ==
    /\ RunIdle /\ FitIdle /\ MixIdle /\ OthersIdle
    /\ nameIn \in {n \in [i : IndexSamples, j : IndexSamples,
                          start_i : StartSamples, start_j : StartSamples] :
                      n.i < n.j}
    /\ nameOut = NoNames

\* the loop of create_render_tasks at the indices i and j
NameTasks ==
    /\ ~nameOut.done
    /\ nameOut' = [done |-> TRUE,
                   first |-> Filename(nameIn.i, nameIn.start_i),
                   second |-> Filename(nameIn.j, nameIn.start_j)]
    /\ UNCHANGED <<nameIn, runVars, fitVars, mixVars, asmVars, instrVars, retryVars>>

NextNames == NameTasks

SpecNames == InitNames /\ [][NextNames]_vars

\* lexicographic order of strings (sequences of character codes)
LexLess(a, b) ==
    \E k \in 1..(Len(b)) :
        /\ \A m \in 1..(k - 1) : m <= Len(a) /\ a[m] = b[m]
        /\ k > Len(a) \/ a[k] < b[k]

----------------------------------------------------------------------------
\* VideoEditor.attach_audio_segments up to the finished mixdown

MinBedMs == 1000
SampleMin == -32768
SampleMax == 32767
MaxClips == 2

\* _probe_duration: 0.0 when ffprobe fails, else max(0.0, duration)
ProbeDuration(probe) == IF probe.ok THEN Max(0, probe.duration) ELSE 0

\* max((end for _, _, end in segment_list), default=0.0)
RECURSIVE MaxSegmentEnd(_)
MaxSegmentEnd(list) ==
    IF list = <<>> THEN 0
    ELSE IF Len(list) = 1 THEN list[1].end
    ELSE Max(list[1].end, MaxSegmentEnd(Tail(list)))

\* a bed length that truncates instead of rounding up
TruncatedDurationMs(duration) == Max(MinBedMs, TruncDiv(duration, TicksPerMs))

\* max(1000, math.ceil(duration_seconds * 1000))
TotalDurationMs(duration) == Max(MinBedMs, CeilDiv(duration, TicksPerMs))

\* sorted(..., key=lambda item: item[1]): stable, ascending start
RECURSIVE InsertByStart(_, _)
InsertByStart(sorted, item) ==
    IF sorted = <<>> THEN <<item>>
    ELSE IF sorted[Len(sorted)].start <= item.start THEN Append(sorted, item)
    ELSE Append(InsertByStart(SubSeq(sorted, 1, Len(sorted) - 1), item),
                sorted[Len(sorted)])

RECURSIVE SortByStart(_)
SortByStart(list) ==
    IF list = <<>> THEN <<>>
    ELSE InsertByStart(SortByStart(SubSeq(list, 1, Len(list) - 1)), list[Len(list)])

\* AudioSegment.silent(duration=ms): one sample per millisecond in the model
Silent(ms) == [p \in 1..ms |-> 0]

\* an overlay that pastes the clip over the bed
ReplaceSample(a, b) == b

\* audioop.add on 16-bit samples: the sum, clipped to the sample range
AddSamples(a, b) ==
    IF a + b > SampleMax THEN SampleMax
    ELSE IF a + b < SampleMin THEN SampleMin
    ELSE a + b

\* max(0, int(start * 1000))
PositionMs(start) == Max(0, TruncDiv(start, TicksPerMs))

\* AudioSegment.overlay(clip, position): the clip is added onto the bed from
\* position on and cut at the bed's end
Overlay(bed, clip, position) ==
    [p \in 1..Len(bed) |->
        IF p - 1 >= position /\ p - 1 < position + Len(clip)
        THEN AddSamples(bed[p], clip[p - position])
        ELSE bed[p]]

\* the loop over segment_list: missing files are skipped
RECURSIVE OverlayAll(_, _)
OverlayAll(bed, list) ==
    IF list = <<>> THEN bed
    ELSE LET item == Head(list)
         IN  OverlayAll(IF item.exists
                        THEN Overlay(bed, item.samples, PositionMs(item.start))
                        ELSE bed,
                        Tail(list))

\* clips as the plan may hold them: the audio of the file at audio_path after
\* the conversion to 16-bit stereo 44.1 kHz, if the file exists
ClipPool ==
    { [exists |-> TRUE, start |-> 0, end |-> 6, samples |-> <<20000, 20000, 20000>>],
      [exists |-> TRUE, start |-> 4, end |-> 9, samples |-> <<20000, -32768>>],
      [exists |-> TRUE, start |-> 4, end |-> 1003 * TicksPerMs + 1,
       samples |-> <<-20000, -20000>>],
      [exists |-> FALSE, start |-> 7, end |-> 9, samples |-> <<32767>>],
      [exists |-> TRUE, start |-> 0, end |-> 6, samples |-> <<-32768, 100>>] }

\* what ffprobe may say of the muted video (duration in ticks)
ProbeSamples ==
    { [ok |-> FALSE, duration |-> 0],
      [ok |-> TRUE, duration |-> 0],
      [ok |-> TRUE, duration |-> 5],
      [ok |-> TRUE, duration |-> 1000 * TicksPerMs],
      [ok |-> TRUE, duration |-> 1001 * TicksPerMs + 1] }

InitMix ==
    /\ RunIdle /\ FitIdle /\ NamesIdle /\ OthersIdle
    /\ mixIn \in [probe : ProbeSamples, audio_segments : SeqsUpTo(ClipPool, MaxClips)]
    /\ mixOut = NoMix

\* attach_audio_segments, lines 34-62
MixDown ==
    /\ ~mixOut.done
    /\ LET segment_list == SortByStart(mixIn.audio_segments)
           duration == Max(ProbeDuration(mixIn.probe), MaxSegmentEnd(segment_list))
           total == TotalDurationMs(duration)
       IN  mixOut' = [done |-> TRUE,
                      total_duration_ms |-> total,
                      mixdown |-> OverlayAll(Silent(total), segment_list)]
    /\ UNCHANGED <<mixIn, runVars, fitVars, nameVars, asmVars, instrVars,
                   retryVars>>

NextMix == MixDown

SpecMix == InitMix /\ [][NextMix]_vars

----------------------------------------------------------------------------
\* Claims about the synthesis stage

\* C1: in every reachable state at most `limit` synthesize calls are in
\* flight (started and neither finished nor failed), and the permits taken
\* are exactly the calls in flight.
C1_AtMostLimitInFlight ==
    /\ Cardinality(InFlight) <= limit
    /\ gatherSt # "idle" => semValue = limit - Cardinality(InFlight)

\* the gate is full while another job waits for admission
C1_Witness ==
    /\ Cardinality(InFlight) = limit
    /\ \E i \in Jobs : jobSt[i] = "pending"

\* C2: the rendered-clip list of the plan has, at each index i, the output
\* path, start and end of the i-th input segment, whatever the order in which
\* the synthesize calls completed.
C2_PlanInSegmentOrder ==
    plan.built =>
        /\ Len(plan.rendered_segments) = Len(segments)
        /\ \A i \in 1..Len(segments) :
              LET clip == plan.rendered_segments[i]
              IN  /\ clip.audio_path = render_tasks[i].output_path
                  /\ clip.start = segments[i].start
                  /\ clip.end = segments[i].end

\* a plan was built after the second job completed before the first
C2_Witness ==
    /\ plan.built
    /\ Len(segments) = 2
    /\ results = <<PathOf(2), PathOf(1)>>

\* C3: bounded_gather neither returns nor raises while a job is still pending
\* or in flight.
C3_StageWaitsForEveryJob ==
    gatherSt \in {"returned", "raised"} =>
        \A i \in Jobs : jobSt[i] \in {"done", "failed"}

\* C4: a run that starts with a non-empty file at every job's output path
\* makes no provider call and leaves every file as it was.
C4_RerunIsIdempotent ==
    (\A i \in Jobs : LET f == FileAt(filesAtStart, PathOf(i))
                     IN  f.kind \notin {"absent", "empty"})
        => /\ \A i \in Jobs : ttsCalls[i] = 0
           /\ files = filesAtStart

\* a second run over two jobs whose files the first run left has finished
C4_Witness ==
    /\ runNo = 2
    /\ Len(segments) = 2
    /\ gatherSt = "returned"
    /\ \A i \in Jobs : FileAt(filesAtStart, PathOf(i)).kind \notin {"absent", "empty"}
    /\ \E i \in Jobs : FileAt(filesAtStart, PathOf(i)).kind \in {"raw", "fitted"}

\* C5: a job whose text is empty or only whitespace never calls the provider,
\* and once it is done its file is silence of max(1, whole milliseconds of
\* end - start) milliseconds.
C5_BlankTextIsSilence ==
    \A i \in Jobs :
        LET seg == render_tasks[i].segment
        IN  (\A k \in 1..Len(seg.text) : seg.text[k] = SPACE) =>
               /\ ttsCalls[i] = 0
               /\ jobSt[i] \notin InFlightStates
               /\ jobSt[i] = "done" =>
                     LET f == FileAt(files, PathOf(i))
                         ms == (seg.end - seg.start) \div TicksPerMs
                     IN  /\ f.kind = "silent"
                         /\ f.dur = IF ms >= 1 THEN ms ELSE 1

\* a whitespace-only job of more than a millisecond and an empty job of zero
\* length are both done
C5_Witness ==
    /\ \E i \in Jobs :
          /\ render_tasks[i].segment.text = TextSpaces
          /\ jobSt[i] = "done"
          /\ FileAt(files, PathOf(i)).dur > 1
    /\ \E i \in Jobs :
          /\ render_tasks[i].segment.text = TextEmpty
          /\ jobSt[i] = "done"
          /\ FileAt(files, PathOf(i)).dur = 1

\* C7: when the duration fitting fails (probe failure, zero target, failed
\* compression) synthesize still returns the output path, and the file there
\* is the provider audio as it was streamed.
C7_FittingNeverRaises ==
    \A i \in Jobs :
        fitLog[i] \in {"probe", "zero_division", "compress"} =>
            /\ jobSt[i] = "done"
            /\ \E k \in 1..Len(results) : results[k] = PathOf(i)
            /\ FileAt(files, PathOf(i)).kind = "raw"

\* one job's fitting divided by a zero target and another's compression failed
C7_Witness ==
    /\ \E i \in Jobs : fitLog[i] = "zero_division"
    /\ \E i \in Jobs : fitLog[i] = "compress"

----------------------------------------------------------------------------
\* Claims about the duration fitting

\* C6: for a measured duration D and a target T > 0, with working tools, the
\* file is left as streamed when D <= T or min(D/T, 1.3) <= 1.01, and is
\* otherwise compressed by exactly min(D/T, 1.3); no factor exceeds 1.3.
C6_FittingDecision ==
    (fitOut.done /\ fitIn.probeOk /\ fitIn.runOk /\ fitIn.target > 0) =>
        LET D == fitIn.current
            T == fitIn.target
            f == fitOut.file
        IN  IF D <= T \/ 100 * D <= 101 * T
            THEN f = RawFile(D)
            ELSE /\ f.kind = "fitted"
                 /\ f.dur = D
                 /\ IF 10 * D <= 13 * T
                    THEN f.num * T = D * f.den
                    ELSE f.num * 10 = 13 * f.den
                 /\ f.num * 10 <= 13 * f.den

\* a clip of one and a half times its target was compressed by 13/10
C6_Witness ==
    /\ fitOut.done
    /\ fitIn.target > 0
    /\ 2 * fitIn.current = 3 * fitIn.target
    /\ fitOut.file.kind = "fitted"
    /\ fitOut.file.num * 10 = 13 * fitOut.file.den

----------------------------------------------------------------------------
\* Claims about the render job builder

\* C8: of two jobs of one list, the earlier one's output path differs from
\* the later one's and sorts before it lexicographically (so the paths are
\* pairwise distinct and sort in segment order).
C8_PathsSortInSegmentOrder ==
    nameOut.done =>
        /\ nameOut.first # nameOut.second
        /\ LexLess(nameOut.first, nameOut.second)

----------------------------------------------------------------------------
\* Claims about the audio bed

VideoDurationOrZero == IF mixIn.probe.ok THEN mixIn.probe.duration ELSE 0

LatestEnd ==
    LET ends == {mixIn.audio_segments[k].end : k \in 1..Len(mixIn.audio_segments)}
                    \cup {0}
    IN  CHOOSE e \in ends : \A other \in ends : other <= e

LongestTicks == IF VideoDurationOrZero >= LatestEnd THEN VideoDurationOrZero ELSE LatestEnd

WholeMsUp(ticks) == (ticks + TicksPerMs - 1) \div TicksPerMs

\* C9 as stated: the bed lasts max(video duration, latest clip end), with a
\* floor of 1 millisecond, never less; an unprobeable video counts as zero.
C9_BedFloorOneMillisecond ==
    mixOut.done =>
        /\ mixOut.total_duration_ms =
              (IF WholeMsUp(LongestTicks) >= 1 THEN WholeMsUp(LongestTicks) ELSE 1)
        /\ mixOut.total_duration_ms * TicksPerMs >= LongestTicks

\* C9 as amended: the bed lasts max(video duration, latest clip end) rounded
\* up to whole milliseconds, with a floor of 1000 milliseconds, never less
\* than that maximum; an unprobeable video counts as zero.
C9_BedFloorOneSecond ==
    mixOut.done =>
        /\ mixOut.total_duration_ms =
              (IF WholeMsUp(LongestTicks) >= 1000 THEN WholeMsUp(LongestTicks) ELSE 1000)
        /\ mixOut.total_duration_ms * TicksPerMs >= LongestTicks
        /\ Len(mixOut.mixdown) = mixOut.total_duration_ms

\* a bed for clips and a video that all end within the first second, and so
\* lasts a second
C9_Witness ==
    /\ mixOut.done
    /\ mixIn.audio_segments # <<>>
    /\ mixIn.probe.ok
    /\ LongestTicks > 0
    /\ WholeMsUp(LongestTicks) < 1000
    /\ mixOut.total_duration_ms = 1000

ClipOffset(k) == mixIn.audio_segments[k].start \div TicksPerMs

ClipCovers(k, p) ==
    LET clip == mixIn.audio_segments[k]
    IN  /\ clip.exists
        /\ ClipOffset(k) <= p
        /\ p < ClipOffset(k) + Len(clip.samples)

ClipSample(k, p) == mixIn.audio_segments[k].samples[p - ClipOffset(k) + 1]

Saturated(x) == IF x > 32767 THEN 32767 ELSE IF x < -32768 THEN -32768 ELSE x

Covering(p) == {k \in 1..Len(mixIn.audio_segments) : ClipCovers(k, p)}

Reorderings(list) ==
    LET n == Len(list)
        bijections == {f \in [1..n -> 1..n] : \A a, b \in 1..n : f[a] = f[b] => a = b}
    IN  {[k \in 1..n |-> list[f[k]]] : f \in bijections}

\* C10: every existing clip is placed at floor(start * 1000) ms; where
\* exactly two clips cover a bed sample it is the saturated sum of their two
\* samples, where one covers it the clip's sample, where none silence; and
\* overlaying the clips in any other order gives the same samples there.
C10_OverlapIsSaturatedSum ==
    mixOut.done =>
        /\ \A p \in 0..(Len(mixOut.mixdown) - 1) :
              LET cov == Covering(p)
                  got == mixOut.mixdown[p + 1]
              IN  /\ cov = {} => got = 0
                  /\ Cardinality(cov) = 1 => \E k \in cov : got = ClipSample(k, p)
                  /\ Cardinality(cov) = 2 =>
                        \E k1, k2 \in cov :
                            /\ k1 # k2
                            /\ got = Saturated(ClipSample(k1, p) + ClipSample(k2, p))
        /\ \A other \in Reorderings(mixIn.audio_segments) :
              LET bed == OverlayAll(Silent(mixOut.total_duration_ms), other)
              IN  \A p \in 0..(Len(bed) - 1) :
                      Cardinality(Covering(p)) <= 2 => bed[p + 1] = mixOut.mixdown[p + 1]

\* two clips overlap on a sample where their sum leaves the 16-bit range
C10_Witness ==
    /\ mixOut.done
    /\ \E p \in 0..(Len(mixOut.mixdown) - 1) :
          /\ Cardinality(Covering(p)) = 2
          /\ \E k1, k2 \in Covering(p) :
                /\ k1 # k2
                /\ ClipOffset(k1) # ClipOffset(k2)
                /\ ClipSample(k1, p) + ClipSample(k2, p) > 32767
                /\ mixOut.mixdown[p + 1] = 32767

----------------------------------------------------------------------------
\* Failure of a synthesis job

\* run is past render_audio_segments: it has built the plan and called
\* assemble_video
AssembleStarted == plan.built

\* C13: once a job of a run has raised, that run never gets its job list back
\* and never starts assemble_video; the step in which a job fails, and the
\* step in which the failure is raised to run, leave every other job of the
\* run as it was (none is cancelled).
C13_FailFastWithoutCancellation ==
    [][/\ (\E i \in DOMAIN jobSt' : jobSt'[i] = "failed")
            => gatherSt' # "returned" /\ ~AssembleStarted'
       /\ runNo' = runNo =>
            \A i \in DOMAIN jobSt :
                jobSt[i] # "failed" /\ jobSt'[i] = "failed"
                    => \A j \in DOMAIN jobSt \ {i} : jobSt'[j] = jobSt[j]
       /\ gatherSt = "running" /\ gatherSt' = "raised" => jobSt' = jobSt]_vars

\* the failure of one job was raised to run while a sibling is still in
\* flight
C13_Witness ==
    /\ gatherSt = "raised"
    /\ ~AssembleStarted
    /\ \E i \in Jobs : jobSt[i] = "failed"
    /\ \E j \in Jobs : jobSt[j] \in InFlightStates

----------------------------------------------------------------------------
\* The blocking calls of synthesize and the event loop

\* C14: while one job is inside its duration fitting block (probing or
\* compressing its clip), the event loop can still advance every other job
\* that has something to do: admit a pending job when a permit is free, take
\* the response of a requesting job, end the stream of a streaming job.
C14_LoopFreeWhileFitting ==
    \A i \in Jobs :
        jobSt[i] = "fitting" =>
            \A j \in Jobs \ {i} :
                /\ jobSt[j] = "pending" /\ ~SemLocked(semValue)
                        => ENABLED Admit(j)
                /\ jobSt[j] = "requesting" => ENABLED StreamOpen(j)
                /\ jobSt[j] = "streaming" => ENABLED StreamFinish(j)

----------------------------------------------------------------------------
\* What bounded_gather returns

\* C17: the list bounded_gather returns holds the result of its i-th
\* awaitable (the output path synthesize returns for task i) at index i.
C17_ResultsInInputOrder ==
    gatherSt = "returned" => results = [i \in Jobs |-> PathOf(i)]

----------------------------------------------------------------------------
\* Files left by earlier runs

\* job i of the current run returned from the skip-if-exists check
AcceptedBySkip(i) ==
    jobSt[i] = "done" /\ SkipExisting(FileAt(filesAtStart, PathOf(i)))

\* f is a silent clip, or a provider clip on which the duration fitting block
\* for the given target ran to its end
FittedClip(f, target) ==
    \/ f.kind = "silent"
    \/ LET r == TryAdjust(f.dur, target, TRUE, TRUE)
       IN  r.error = "none" /\ f = r.file

\* C18: a file that the skip-if-exists check of a run accepts is the job's
\* completely synthesized and duration-fitted clip, whatever earlier runs did
\* and however they ended.
C18_SkipAcceptsOnlyFinalClips ==
    \A i \in Jobs :
        AcceptedBySkip(i) => FittedClip(FileAt(files, PathOf(i)), TargetOf(i))

----------------------------------------------------------------------------
\* One call of bounded_gather under the scheduling of the event loop

\* the first run of the pipeline
FirstRun == StartRun /\ runNo = 0

NextLive ==
    \/ FirstRun
    \/ \E i \in Jobs : Admit(i)
    \/ \E i \in Jobs : StreamOpen(i)
    \/ \E i \in Jobs : StreamChunk(i)
    \/ \E i \in Jobs : StreamFinish(i)
    \/ \E i \in Jobs : FitFinish(i)
    \/ \E i \in Jobs : StreamFail(i)
    \/ GatherReturn
    \/ GatherRaise

\* The event loop runs every callback that stays ready (a task that can take
\* a permit, a task whose awaited call has an outcome, the caller of gather
\* once gather is resolved); a provider call that was sent gets its response
\* or fails, a stream that was opened ends or fails, and ffmpeg returns.
LoopFairness ==
    /\ \A i \in 1..MaxJobs :
          /\ WF_vars(i \in Jobs /\ Admit(i))
          /\ WF_vars(i \in Jobs /\ (StreamOpen(i) \/ StreamFail(i)))
          /\ WF_vars(i \in Jobs /\ (StreamFinish(i) \/ StreamFail(i)))
          /\ WF_vars(i \in Jobs /\ FitFinish(i))
    /\ WF_vars(GatherReturn)
    /\ WF_vars(GatherRaise)

SpecLive == Init /\ [][NextLive]_vars /\ LoopFairness

\* task i of _run waits for a permit
Pending(i) == i \in Jobs /\ jobSt[i] = "pending"

\* every task of _run has left its async with block
AllExited == \A i \in Jobs : jobSt[i] \in {"done", "failed"}

\* C19: a running bounded_gather eventually returns or raises, and until then
\* no job stays pending forever; the permits not held by jobs in flight are
\* free, all of them once every job has finished or failed; a returned list
\* has exactly one result for each job.
C19_GatherTerminates ==
    /\ (gatherSt = "running") ~> (gatherSt \in {"returned", "raised"})
    /\ \A i \in 1..MaxJobs :
          (gatherSt = "running" /\ Pending(i))
              ~> (gatherSt # "running" \/ ~Pending(i))
    /\ [](gatherSt # "idle" =>
            /\ semValue = limit - Cardinality(InFlight)
            /\ AllExited => semValue = limit)
    /\ [](gatherSt = "returned" =>
            /\ Len(results) = Len(render_tasks)
            /\ \A i \in Jobs :
                  Cardinality({k \in 1..Len(results) : results[k] = PathOf(i)}) = 1)

\* more jobs than permits, each one went to the provider, and the call
\* returned with every permit free
C19_Witness ==
    /\ gatherSt = "returned"
    /\ Len(render_tasks) > limit
    /\ \A i \in Jobs : ttsCalls[i] = 1
    /\ semValue = limit
    /\ Len(results) = Len(render_tasks)

----------------------------------------------------------------------------
\* VideoDubbingPipeline.assemble_video with VideoEditor.remove_audio_track
\* and VideoEditor.attach_audio_segments.  A file name is the sequence of its
\* dot-separated parts, the last one being the suffix if there are several.

Stem(path) == IF Len(path) > 1 THEN SubSeq(path, 1, Len(path) - 1) ELSE path

Suffix(path) == IF Len(path) > 1 THEN <<path[Len(path)]>> ELSE <<>>

\* video_path.with_name(f"{video_path.stem}.muted{video_path.suffix}")
MutedPath(video_path) == Stem(video_path) \o <<"muted">> \o Suffix(video_path)

\* output_path.with_suffix(".temp.wav")
TempAudioPath(output_path) == Stem(output_path) \o <<"temp", "wav">>

Exists(d, path) == path \in DOMAIN d

WriteDisk(d, path, content) ==
    [q \in (DOMAIN d) \cup {path} |-> IF q = path THEN content ELSE d[q]]

Unlink(d, path) == [q \in (DOMAIN d) \ {path} |-> d[q]]

\* What a failed ffmpeg or export call can leave at the path it writes to:
\* the disk as it was (the call failed before opening its output), or a
\* partly written file.
LeftByFailure(d, path) == {d, WriteDisk(d, path, "partial")}

\* finally of attach_audio_segments
UnlinkTempAudio(d, temp_audio) ==
    IF Exists(d, temp_audio) THEN Unlink(d, temp_audio) ELSE d

\* finally of assemble_video
UnlinkMuted(d, muted_video, output_video) ==
    IF Exists(d, muted_video) /\ muted_video # output_video
    THEN Unlink(d, muted_video)
    ELSE d

SourcePool == {<<"v", "mp4">>, <<"v">>}

\* output paths: the default of the command line, the path of the muted copy,
\* a name without suffix, and the source video itself
OutputPool ==
    {<<"v", "dubbed", "mp4">>, <<"v", "muted", "mp4">>, <<"out">>, <<"v", "mp4">>}

\* the files in paths, left by earlier runs, added to d
WithOld(d, paths) ==
    [q \in (DOMAIN d) \cup paths |-> IF q \in DOMAIN d THEN d[q] ELSE "old"]

\* the source video exists; the output path and the path of the muted copy
\* may hold files of an earlier run
InitAssemble ==
    /\ RunIdle /\ FitIdle /\ NamesIdle /\ MixIdle /\ InstrIdle /\ RetryIdle
    /\ \E src \in SourcePool, out \in OutputPool :
       \E paths \in SUBSET {out, MutedPath(src)} :
          /\ asmIn = [source_video |-> src, output_video |-> out]
          /\ disk = WithOld(WriteDisk(NoDisk, src, "source"), paths)
    /\ asmPc = "muting"
    /\ asmErr = "none"

\* remove_audio_track returns the muted copy
MuteOk ==
    /\ asmPc = "muting"
    /\ disk' = WriteDisk(disk, MutedPath(asmIn.source_video), "muted")
    /\ asmPc' = "attaching"
    /\ UNCHANGED <<asmIn, asmErr>>
    /\ UNCHANGED <<runVars, fitVars, nameVars, mixVars, instrVars, retryVars>>

\* ffmpeg.run of remove_audio_track fails; the call is not inside the try of
\* assemble_video, which ends with the exception
MuteFail ==
    /\ asmPc = "muting"
    /\ disk' \in LeftByFailure(disk, MutedPath(asmIn.source_video))
    /\ asmPc' = "raised"
    /\ asmErr' = "mute"
    /\ UNCHANGED asmIn
    /\ UNCHANGED <<runVars, fitVars, nameVars, mixVars, instrVars, retryVars>>

\* attach_audio_segments returns; finally of attach_audio_segments and of
\* assemble_video
AttachOk ==
    /\ asmPc = "attaching"
    /\ LET muted == MutedPath(asmIn.source_video)
           out == asmIn.output_video
           temp == TempAudioPath(out)
           exported == WriteDisk(disk, temp, "bed")
           remuxed == WriteDisk(exported, out, "dubbed")
       IN  disk' = UnlinkMuted(UnlinkTempAudio(remuxed, temp), muted, out)
    /\ asmPc' = "returned"
    /\ UNCHANGED <<asmIn, asmErr>>
    /\ UNCHANGED <<runVars, fitVars, nameVars, mixVars, instrVars, retryVars>>

\* attach_audio_segments raises while it loads the clips ("mix"), in
\* mixdown.export ("export") or in ffmpeg.run ("remux"); the finally clauses
\* run and assemble_video ends with the exception
AttachFail(step) ==
    /\ asmPc = "attaching"
    /\ LET muted == MutedPath(asmIn.source_video)
           out == asmIn.output_video
           temp == TempAudioPath(out)
           exported == WriteDisk(disk, temp, "bed")
       IN  \E left \in CASE step = "mix" -> {disk}
                         [] step = "export" ->
                                {UnlinkTempAudio(d, temp) :
                                    d \in LeftByFailure(disk, temp)}
                         [] step = "remux" ->
                                {UnlinkTempAudio(d, temp) :
                                    d \in LeftByFailure(exported, out)} :
              disk' = UnlinkMuted(left, muted, out)
    /\ asmPc' = "raised"
    /\ asmErr' = step
    /\ UNCHANGED asmIn
    /\ UNCHANGED <<runVars, fitVars, nameVars, mixVars, instrVars, retryVars>>

NextAssemble ==
    \/ MuteOk
    \/ MuteFail
    \/ AttachOk
    \/ \E step \in {"mix", "export", "remux"} : AttachFail(step)

SpecAssemble == InitAssemble /\ [][NextAssemble]_vars

\* C11: when assemble_video has returned or raised, the muted video and the
\* temporary audio bed are not on disk, unless the path is the output path.
C11_NoIntermediateFileRemains ==
    asmPc \in {"returned", "raised"} =>
        LET muted == MutedPath(asmIn.source_video)
            temp == TempAudioPath(asmIn.output_video)
        IN  /\ muted = asmIn.output_video \/ ~Exists(disk, muted)
            /\ temp = asmIn.output_video \/ ~Exists(disk, temp)

\* C12: a failure of the remux ends assemble_video (and with it run) with the
\* exception and leaves no partly written file at the output path.
C12_RemuxFailureLeavesNoPartialOutput ==
    asmErr = "remux" =>
        /\ asmPc = "raised"
        /\ Exists(disk, asmIn.output_video)
                => disk[asmIn.output_video] # "partial"

----------------------------------------------------------------------------
\* The narration instruction: TextToSpeechService.__init__,
\* create_render_tasks and the request arguments of synthesize

\* truth value of a str | None
Truthy(v) == ~v.isNone /\ v.text # <<>>

\* a or b
Or(a, b) == IF Truthy(a) THEN a ELSE b

\* v.strip() for a str v
StripStr(v) == Str(Strip(v.text))

\* self._instruction = instruction.strip() if instruction else None
ConfiguredInstruction(instruction) ==
    IF Truthy(instruction) THEN StripStr(instruction) ELSE None

\* applied_instruction = (instruction_override or "").strip() or self._instruction
\* applied_instruction = applied_instruction.strip() if applied_instruction else None
AppliedInstruction(instruction_override, self_instruction) ==
    LET applied == Or(StripStr(Or(instruction_override, Str(<<>>))),
                      self_instruction)
    IN  IF Truthy(applied) THEN StripStr(applied) ELSE None

\* request_args.get("instructions"): set only if task.instruction
RequestInstructions(task_instruction) ==
    IF Truthy(task_instruction) THEN task_instruction ELSE None

\* values of TTS_INSTRUCTION and of instruction_override
InstrPool ==
    {None, Str(<<>>), Str(<<SPACE>>), Str(<<97>>), Str(<<SPACE, 97, SPACE>>),
     Str(<<98, SPACE>>)}

InitInstr ==
    /\ RunIdle /\ FitIdle /\ NamesIdle /\ MixIdle /\ AsmIdle /\ RetryIdle
    /\ instrIn \in [instruction : InstrPool, instruction_override : InstrPool]
    /\ instrOut = NoInstr

\* TextToSpeechService(client, model, voice, instruction)
Construct ==
    /\ instrOut.pc = "new"
    /\ instrOut' = [instrOut EXCEPT
                       !.pc = "constructed",
                       !.instruction = ConfiguredInstruction(instrIn.instruction)]
    /\ UNCHANGED instrIn
    /\ UNCHANGED <<runVars, fitVars, nameVars, mixVars, asmVars, retryVars>>

\* create_render_tasks: the instruction every task of the list gets
ApplyInstruction ==
    /\ instrOut.pc = "constructed"
    /\ instrOut' = [instrOut EXCEPT
                       !.pc = "created",
                       !.applied = AppliedInstruction(instrIn.instruction_override,
                                                      instrOut.instruction)]
    /\ UNCHANGED instrIn
    /\ UNCHANGED <<runVars, fitVars, nameVars, mixVars, asmVars, retryVars>>

\* synthesize builds request_args for a task of the list
BuildRequest ==
    /\ instrOut.pc = "created"
    /\ instrOut' = [instrOut EXCEPT
                       !.pc = "requested",
                       !.request_instructions = RequestInstructions(instrOut.applied)]
    /\ UNCHANGED instrIn
    /\ UNCHANGED <<runVars, fitVars, nameVars, mixVars, asmVars, retryVars>>

NextInstr == Construct \/ ApplyInstruction \/ BuildRequest

SpecInstr == InitInstr /\ [][NextInstr]_vars

\* v is a string with something left after trimming
NonBlank(v) == ~v.isNone /\ Strip(v.text) # <<>>

\* C15: the instruction create_render_tasks applies is the trimmed override
\* if that is non-empty, else the configured default if there is one, and it
\* is never absent.
C15_InstructionNeverAbsent ==
    instrOut.pc \in {"created", "requested"} =>
        /\ ~instrOut.applied.isNone
        /\ NonBlank(instrIn.instruction_override)
                => instrOut.applied = StripStr(instrIn.instruction_override)
        /\ ~NonBlank(instrIn.instruction_override) /\ NonBlank(instrIn.instruction)
                => instrOut.applied = StripStr(instrIn.instruction)

----------------------------------------------------------------------------
\* The provider call of TranscriptionService.transcribe and its retry loop

\* max_retries
MaxRetries == 3

\* An exception of the provider call: whether it has a status_code attribute,
\* the HTTP status if it has, and whether str(e) contains "500".
ErrorPool ==
    {[has_status_code |-> TRUE, status_code |-> st, text_has_500 |-> t] :
        st \in {400, 429, 500, 503}, t \in BOOLEAN}
    \cup {[has_status_code |-> FALSE, status_code |-> 0, text_has_500 |-> t] :
            t \in BOOLEAN}

\* "500" in str(e) or (hasattr(e, "status_code") and e.status_code >= 500)
IsServerError(e) ==
    e.text_has_500 \/ (e.has_status_code /\ e.status_code >= 500)

InitRetry ==
    /\ RunIdle /\ FitIdle /\ NamesIdle /\ MixIdle /\ AsmIdle /\ InstrIdle
    /\ retryPc = "calling"
    /\ attempt = 0
    /\ calls = 0
    /\ retried = <<>>
    /\ raisedError = NoError

\* transcriptions.create returns: break
CallReturns ==
    /\ retryPc = "calling"
    /\ attempt < MaxRetries
    /\ calls' = calls + 1
    /\ retryPc' = "returned"
    /\ UNCHANGED <<attempt, retried, raisedError>>
    /\ UNCHANGED <<runVars, fitVars, nameVars, mixVars, asmVars, instrVars>>

\* transcriptions.create raises e: sleep, seek and continue, or raise
CallRaises(e) ==
    /\ retryPc = "calling"
    /\ attempt < MaxRetries
    /\ calls' = calls + 1
    /\ IF IsServerError(e) /\ attempt < MaxRetries - 1
       THEN /\ attempt' = attempt + 1
            /\ retried' = Append(retried, e)
            /\ UNCHANGED <<retryPc, raisedError>>
       ELSE /\ retryPc' = "raised"
            /\ raisedError' = e
            /\ UNCHANGED <<attempt, retried>>
    /\ UNCHANGED <<runVars, fitVars, nameVars, mixVars, asmVars, instrVars>>

NextRetry == CallReturns \/ \E e \in ErrorPool : CallRaises(e)

SpecRetry == InitRetry /\ [][NextRetry]_vars

\* a 4xx answer: the request itself is at fault
ClientError(e) ==
    e.has_status_code /\ e.status_code >= 400 /\ e.status_code < 500

\* a 5xx answer, or an error without HTTP status whose text names a 500
TransientServerError(e) ==
    IF e.has_status_code THEN e.status_code >= 500 ELSE e.text_has_500

\* C16: the call is repeated only after a transient server-side error and
\* never after a client error; one invocation makes at most 3 calls, and
\* after a third failure it raises that error.
C16_RetryOnlyServerErrors ==
    /\ \A k \in 1..Len(retried) :
          TransientServerError(retried[k]) /\ ~ClientError(retried[k])
    /\ calls <= MaxRetries
    /\ calls = MaxRetries /\ retryPc # "returned"
            => retryPc = "raised" /\ raisedError # NoError

====
